---- MODULE Spec2Model ----
(***************************************************************************)
(* Model of the notebook "Boston Housing - XGBoost (Deploy) - High Level": *)
(* load -> split -> split -> makedirs -> to_csv x2 -> upload x2 -> fit ->  *)
(* deploy -> predict -> delete_endpoint -> clean up.                        *)
(*                                                                         *)
(* Numeric values are decimal numbers with at most two fractional digits,  *)
(* held as a count of hundredths (2.31 is 231).  Text is a sequence of     *)
(* one-character strings.  Split ratios are held in percent (0.33 is 33).  *)
(***************************************************************************)
EXTENDS Integers, Sequences, FiniteSets, TLC

VARIABLES
    pc,             \* the next notebook cell to run, "done" or "failed"
    err,            \* the exception that stopped the run, or "none"
    boston,         \* load_boston(): sequence of [target, features]
    ratio1, ratio2, \* test_size of the first and of the second split (percent)
    X_bos_pd, Y_bos_pd,
    X_train, Y_train, X_val, Y_val, X_test, Y_test,
    dirExists,      \* os.path.exists(data_dir)
    dirFiles,       \* the files of data_dir: name -> text
    makedirsCalls,  \* number of os.makedirs(data_dir) calls made
    s3,             \* the default bucket: key -> object (a file's text, or a model)
    val_location, train_location,
    job,            \* the training job: state, channels, matrices loaded
    endpoint,       \* state of the endpoint
    request,        \* the payload of the last invoke, or NoText
    Y_pred,         \* the parsed Prediction Vector, or NoVector
    sizes           \* the size arithmetic of the two splits alone

dataVars == <<boston, ratio1, ratio2, X_bos_pd, Y_bos_pd,
              X_train, Y_train, X_val, Y_val, X_test, Y_test>>
fsVars == <<dirExists, dirFiles, makedirsCalls>>
remoteVars == <<s3, val_location, train_location, job, endpoint, request, Y_pred>>
vars == <<pc, err, dataVars, fsVars, remoteVars, sizes>>

------------------------------------------------------------------------------
(* Bounds of the model *)

\* most rows a dataset (or a record set handed to the writer) has
MaxRows == 4
\* largest dataset size of the size arithmetic
MaxN == 510

(* Program constants *)

\* load_boston(): 506 rows of 13 features and 1 target
BostonRows == 506
NumFeatures == 13
\* test_size=0.33, in percent
TestSize == 33

\* the split ratios tried by the specifications that vary them (percent);
\* for these, ceil(r * n) in double arithmetic equals the exact ceiling
Ratios == {10, 33, 50, 90}

------------------------------------------------------------------------------
(* Records the datasets are made of *)

Features(a, b) == [j \in 1..NumFeatures |-> IF j % 2 = 1 THEN a + j ELSE b * j]

\* two housing records; hundredths: 24.0 | 0.07, 18.0, ... and 21.6 | 2.31, 0.0, ...
RecordPool ==
    { [target |-> 2400, features |-> Features(6, 900)],
      [target |-> 2160, features |-> Features(230, 0)] }

SeqsUpTo(S, n) == UNION {[1..k -> S] : k \in 0..n}

Datasets == SeqsUpTo(RecordPool, MaxRows)

------------------------------------------------------------------------------
(* DataFrames: a sequence of rows [idx, vals]; idx is the row label *)

NoFrame == <<>>

\* pd.DataFrame(boston.data, columns=boston.feature_names): RangeIndex 0..n-1
FeatureFrame(ds) == [i \in 1..Len(ds) |-> [idx |-> i - 1, vals |-> ds[i].features]]

\* pd.DataFrame(boston.target)
TargetFrame(ds) == [i \in 1..Len(ds) |-> [idx |-> i - 1, vals |-> <<ds[i].target>>]]

Labels(df) == {df[i].idx : i \in 1..Len(df)}

RowOf(df, label) == df[CHOOSE i \in 1..Len(df) : df[i].idx = label]

------------------------------------------------------------------------------
(* sklearn.model_selection.train_test_split(X, Y, test_size=r) *)

\* n_test = ceil(test_size * n_samples)
NTest_Floor(p, n) == (p * n) \div 100
NTest(p, n) == (p * n + 99) \div 100

\* n_train = n_samples - n_test (train_size is not given)
NTrain_Ceil(p, n) == ((100 - p) * n + 99) \div 100
NTrain(p, n) == n - NTest(p, n)

Perms(n) == {f \in [1..n -> 1..n] : \A i, j \in 1..n : f[i] = f[j] => i = j}

Min(a, b) == IF a < b THEN a ELSE b

\* a[perm[lo:hi]] with Python's slice bounds (0-based, hi exclusive, clamped)
Take(df, perm, lo, hi) ==
    [i \in 1..(Min(hi, Len(df)) - Min(lo, Len(df))) |-> df[perm[Min(lo, Len(df)) + i]]]

\* ind_test = permutation[:n_test]; ind_train = permutation[n_test:n_test + n_train]
TestRows_Overlap(df, perm, p) == Take(df, perm, 0, NTest(p, Len(df)) + 1)
TestRows(df, perm, p) == Take(df, perm, 0, NTest(p, Len(df)))

TrainRows(df, perm, p) ==
    Take(df, perm, NTest(p, Len(df)), NTest(p, Len(df)) + NTrain(p, Len(df)))

SplitOutcomes_Unpaired(X, Y, p) ==
    { [X_train |-> TrainRows(X, px, p), X_test |-> TestRows(X, px, p),
       Y_train |-> TrainRows(Y, py, p), Y_test |-> TestRows(Y, py, p)]
      : px \in Perms(Len(X)), py \in Perms(Len(Y)) }
\* every outcome of one call: the same permutation indexes X and Y
SplitOutcomes(X, Y, p) ==
    { [X_train |-> TrainRows(X, perm, p), X_test |-> TestRows(X, perm, p),
       Y_train |-> TrainRows(Y, perm, p), Y_test |-> TestRows(Y, perm, p)]
      : perm \in Perms(Len(X)) }

\* With no sample at all the call raises.  With an empty train set it raises
\* ValueError in scikit-learn >= 0.21 and returns the empty set before.
SplitMayRaise(p, n) == n = 0 \/ NTrain(p, n) = 0
SplitMayReturn(p, n) == n > 0

------------------------------------------------------------------------------
(* Text: numbers as Python prints them, and as it reads them back *)

DigitChars == <<"0", "1", "2", "3", "4", "5", "6", "7", "8", "9">>

DigitStr(d) == DigitChars[d + 1]

DigitVal(c) == CHOOSE d \in 0..9 : DigitStr(d) = c

RECURSIVE IntStr(_)
IntStr(n) == IF n < 10 THEN <<DigitStr(n)>>
             ELSE IntStr(n \div 10) \o <<DigitStr(n % 10)>>

\* str(float): the shortest decimal that reads back, at least one fractional digit
FloatStr(h) ==
    IntStr(h \div 100) \o <<".">> \o
    (IF h % 10 = 0 THEN <<DigitStr((h % 100) \div 10)>>
     ELSE <<DigitStr((h % 100) \div 10), DigitStr(h % 10)>>)

RECURSIVE IntVal(_)
IntVal(t) == IF t = <<>> THEN 0
             ELSE 10 * IntVal(SubSeq(t, 1, Len(t) - 1)) + DigitVal(t[Len(t)])

\* position of the first sep in t, 0 when there is none
FirstSep(t, sep) ==
    LET at == {i \in 1..Len(t) : t[i] = sep}
    IN  IF at = {} THEN 0 ELSE CHOOSE i \in at : \A j \in at : i <= j

\* float(text) of a decimal numeral with at most two fractional digits
FloatVal(t) ==
    LET k == FirstSep(t, ".")
        ip == IF k = 0 THEN t ELSE SubSeq(t, 1, k - 1)
        fp == IF k = 0 THEN <<>> ELSE SubSeq(t, k + 1, Len(t))
    IN  100 * IntVal(ip)
        + (IF Len(fp) = 0 THEN 0
           ELSE IF Len(fp) = 1 THEN 10 * DigitVal(fp[1])
           ELSE 10 * DigitVal(fp[1]) + DigitVal(fp[2]))

\* text.split(sep)
RECURSIVE SplitSep(_, _)
SplitSep(t, sep) ==
    LET k == FirstSep(t, sep)
    IN  IF k = 0 THEN <<t>>
        ELSE <<SubSeq(t, 1, k - 1)>> \o SplitSep(SubSeq(t, k + 1, Len(t)), sep)

\* text.splitlines()
SplitLines(t) ==
    LET parts == SplitSep(t, "\n")
    IN  IF parts[Len(parts)] = <<>> THEN SubSeq(parts, 1, Len(parts) - 1) ELSE parts

\* sep.join(parts)
RECURSIVE Join(_, _)
Join(parts, sep) ==
    IF Len(parts) = 0 THEN <<>>
    ELSE IF Len(parts) = 1 THEN parts[1]
    ELSE parts[1] \o <<sep>> \o Join(Tail(parts), sep)

RECURSIVE Concat(_)
Concat(parts) == IF Len(parts) = 0 THEN <<>> ELSE parts[1] \o Concat(Tail(parts))

------------------------------------------------------------------------------
(* The Local Writer: pd.concat([Y, X], axis=1).to_csv(path, header=False, index=False) *)

\* pd.concat([Y, X], axis=1): the rows of Y and X with the same label, side by
\* side (Y and X come from the same split and carry the same labels)
ConcatColumns_FeaturesFirst(Y, X) ==
    [i \in 1..Len(Y) |-> [idx |-> Y[i].idx, vals |-> RowOf(X, Y[i].idx).vals \o Y[i].vals]]
ConcatColumns(Y, X) ==
    [i \in 1..Len(Y) |-> [idx |-> Y[i].idx, vals |-> Y[i].vals \o RowOf(X, Y[i].idx).vals]]

CsvLine(fields) == Join([j \in 1..Len(fields) |-> FloatStr(fields[j])], ",") \o <<"\n">>

\* header=True: a first line of column names; index=True: the label as first field
HeaderLine == <<"0", ",", "C", "R", "I", "M", "\n">>
ToCsv_WithHeader(df) == HeaderLine \o Concat([i \in 1..Len(df) |-> CsvLine(df[i].vals)])
ToCsv_WithIndex(df) ==
    Concat([i \in 1..Len(df) |-> IntStr(df[i].idx) \o <<",">> \o CsvLine(df[i].vals)])
ToCsv(df) == Concat([i \in 1..Len(df) |-> CsvLine(df[i].vals)])

\* The training container's reader: a comma-delimited file, one row per line,
\* label_column=0
ReadCsvLine(line) ==
    LET fields == SplitSep(line, ",")
    IN  [target |-> FloatVal(fields[1]),
         features |-> [j \in 1..(Len(fields) - 1) |-> FloatVal(fields[j + 1])]]

ReadCsv(t) ==
    LET lines == SplitLines(t)
    IN  [i \in 1..Len(lines) |-> ReadCsvLine(lines[i])]

------------------------------------------------------------------------------
(* The Inference Client and the endpoint it calls *)

\* X_test.values
Values(df) == [i \in 1..Len(df) |-> df[i].vals]

\* csv_serializer: the rows joined by newlines, each row its values joined by commas
CsvSerialize(rows) ==
    Join([i \in 1..Len(rows) |-> Join([j \in 1..Len(rows[i]) |-> FloatStr(rows[i][j])], ",")],
         "\n")

\* the payload of xgb_predictor.predict(X_test.values): the whole batch, one request
RequestPayload_FirstRows(df) == CsvSerialize(Values(SubSeq(df, 1, Min(Len(df), 2))))
RequestPayload_TrainRows(df) == CsvSerialize(Values(X_train))
RequestPayload(df) == CsvSerialize(Values(df))

\* np.fromstring(text, sep=',')
FromString_FirstOnly(t, sep) ==
    IF t = <<>> THEN <<>> ELSE <<FloatVal(SplitSep(t, sep)[1])>>
FromString(t, sep) ==
    LET parts == SplitSep(t, sep)
    IN  IF t = <<>> THEN <<>> ELSE [i \in 1..Len(parts) |-> FloatVal(parts[i])]

\* most characters the platform takes in one request
MaxPayload == 140

FeatureRows == {r.features : r \in RecordPool}
PredValues == {2290, 1805}

\* a Trained Artifact is opaque: any function from feature rows to predictions
Artifacts == [FeatureRows -> PredValues]
NoArtifact == [r \in {} |-> 0]

\* the endpoint's reply: one prediction per row of the payload, comma-separated,
\* in the order of the rows
PayloadRow(line) ==
    LET fields == SplitSep(line, ",")
    IN  [j \in 1..Len(fields) |-> FloatVal(fields[j])]

Invoke(artifact, payload) ==
    LET lines == SplitLines(payload)
    IN  Join([i \in 1..Len(lines) |-> FloatStr(artifact[PayloadRow(lines[i])])], ",")

------------------------------------------------------------------------------
(* State *)

NoFiles == [n \in {} |-> <<>>]
\* what an earlier run that never reached its clean-up cell left in data_dir,
\* next to a file of the user's: the two files of that run, with other records
OldText == <<"9", ".", "9", ",", "1", ".", "0", "\n">>
StaleFiles ==
    [n \in {"notes.txt", "train.csv", "validation.csv"} |->
        IF n = "notes.txt" THEN <<"x", "\n">> ELSE OldText]
\* an entry whose name starts with a dot, as Jupyter leaves in a directory
HiddenFiles == [n \in {".ipynb_checkpoints"} |-> <<>>]
\* the shell's * does not match a name that starts with a dot
Hidden(n) == n \in DOMAIN HiddenFiles

WithFile(files, name, text) ==
    [n \in DOMAIN files \cup {name} |-> IF n = name THEN text ELSE files[n]]

ValFile == "validation.csv"
TrainFile == "train.csv"
\* key_prefix + "/" + file name, in the default bucket
ValKey == "boston-xgboost-deploy-hl/validation.csv"
TrainKey == "boston-xgboost-deploy-hl/train.csv"
\* the model the job saves under output_path = s3://<bucket>/<prefix>/output
\* (the platform puts the job's name in between)
OutputKey == "boston-xgboost-deploy-hl/output/model.tar.gz"

NoJob == [state |-> "unprovisioned", train |-> "", validation |-> "",
          train_matrix |-> <<>>, validation_matrix |-> <<>>, artifact |-> NoArtifact]
NoRequest == [sent |-> FALSE, text |-> <<>>]
NoVector == [set |-> FALSE, vals |-> <<>>]
NoSizes == [stage |-> "off", n |-> 0, p1 |-> 0, p2 |-> 0,
            n_test |-> 0, n_val |-> 0, n_train |-> 0]

InitFrames ==
    /\ X_bos_pd = NoFrame /\ Y_bos_pd = NoFrame
    /\ X_train = NoFrame /\ Y_train = NoFrame
    /\ X_val = NoFrame /\ Y_val = NoFrame
    /\ X_test = NoFrame /\ Y_test = NoFrame

\* data_dir is absent, or present and empty, or present with files left in it
InitDir ==
    /\ dirExists \in BOOLEAN
    /\ dirFiles \in {f \in {NoFiles, StaleFiles} : dirExists \/ f = NoFiles}
    /\ makedirsCalls = 0

InitRemote ==
    /\ s3 = NoFiles
    /\ val_location = "" /\ train_location = ""
    /\ job = NoJob
    /\ endpoint = "unprovisioned"
    /\ request = NoRequest
    /\ Y_pred = NoVector

\* the notebook before its first cell: both splits use test_size=0.33
Init ==
    /\ pc = "load" /\ err = "none"
    /\ boston \in Datasets
    /\ ratio1 = TestSize /\ ratio2 = TestSize
    /\ InitFrames /\ InitDir /\ InitRemote
    /\ sizes = NoSizes

Fail_Retry(e) == pc' = pc /\ err' = e
Fail(e) == pc' = "failed" /\ err' = e

------------------------------------------------------------------------------
(* Steps 1 and 2: load and split *)

LoadData ==
    /\ pc = "load"
    /\ X_bos_pd' = FeatureFrame(boston)
    /\ Y_bos_pd' = TargetFrame(boston)
    /\ pc' = "split1"
    /\ UNCHANGED <<err, boston, ratio1, ratio2, X_train, Y_train, X_val, Y_val,
                   X_test, Y_test, fsVars, remoteVars, sizes>>

LoadFail ==
    /\ pc = "load"
    /\ Fail("DataUnavailable")
    /\ UNCHANGED <<dataVars, fsVars, remoteVars, sizes>>

\* X_train, X_test, Y_train, Y_test = train_test_split(X_bos_pd, Y_bos_pd, test_size=0.33)
Split1 ==
    /\ pc = "split1"
    /\ SplitMayReturn(ratio1, Len(X_bos_pd))
    /\ \E o \in SplitOutcomes(X_bos_pd, Y_bos_pd, ratio1) :
          /\ X_train' = o.X_train /\ Y_train' = o.Y_train
          /\ X_test' = o.X_test /\ Y_test' = o.Y_test
    /\ pc' = "split2"
    /\ UNCHANGED <<err, boston, ratio1, ratio2, X_bos_pd, Y_bos_pd, X_val, Y_val,
                   fsVars, remoteVars, sizes>>

Split1Raise ==
    /\ pc = "split1"
    /\ SplitMayRaise(ratio1, Len(X_bos_pd))
    /\ Fail("ValueError")
    /\ UNCHANGED <<dataVars, fsVars, remoteVars, sizes>>

\* X_train, X_val, Y_train, Y_val = train_test_split(X_train, Y_train, test_size=0.33)
Split2 ==
    /\ pc = "split2"
    /\ SplitMayReturn(ratio2, Len(X_train))
    /\ \E o \in SplitOutcomes(X_train, Y_train, ratio2) :
          /\ X_train' = o.X_train /\ Y_train' = o.Y_train
          /\ X_val' = o.X_test /\ Y_val' = o.Y_test
    /\ pc' = "mkdir"
    /\ UNCHANGED <<err, boston, ratio1, ratio2, X_bos_pd, Y_bos_pd, X_test, Y_test,
                   fsVars, remoteVars, sizes>>

Split2Raise ==
    /\ pc = "split2"
    /\ SplitMayRaise(ratio2, Len(X_train))
    /\ Fail("ValueError")
    /\ UNCHANGED <<dataVars, fsVars, remoteVars, sizes>>

------------------------------------------------------------------------------
(* Step 3: save the data locally, upload it *)

\* if not os.path.exists(data_dir): os.makedirs(data_dir)
MakeDirs_Always(exists) == TRUE
MakeDirsNeeded(exists) == ~exists

MakeDir ==
    /\ pc = "mkdir"
    /\ IF MakeDirsNeeded(dirExists)
       THEN /\ ~dirExists       \* os.makedirs raises FileExistsError otherwise
            /\ dirExists' = TRUE
            /\ dirFiles' = NoFiles
            /\ makedirsCalls' = makedirsCalls + 1
       ELSE UNCHANGED fsVars
    /\ pc' = "write_val"
    /\ UNCHANGED <<err, dataVars, remoteVars, sizes>>

\* os.makedirs raises: no permission, or the directory is there already
MakeDirFail ==
    /\ pc = "mkdir"
    /\ MakeDirsNeeded(dirExists)
    /\ makedirsCalls' = makedirsCalls + 1
    /\ Fail("FilesystemError")
    /\ UNCHANGED <<dataVars, dirExists, dirFiles, remoteVars, sizes>>

\* pd.concat([Y_val, X_val], axis=1).to_csv('../data/boston/validation.csv', ...)
WriteVal ==
    /\ pc = "write_val"
    /\ dirExists
    /\ dirFiles' = WithFile(dirFiles, ValFile, ToCsv(ConcatColumns(Y_val, X_val)))
    /\ pc' = "write_train"
    /\ UNCHANGED <<err, dataVars, dirExists, makedirsCalls, remoteVars, sizes>>

\* pd.concat([Y_train, X_train], axis=1).to_csv('../data/boston/train.csv', ...)
WriteTrain_ToValidation ==
    /\ pc = "write_train"
    /\ dirExists
    /\ dirFiles' = WithFile(dirFiles, ValFile, ToCsv(ConcatColumns(Y_train, X_train)))
    /\ pc' = "upload_val"
    /\ UNCHANGED <<err, dataVars, dirExists, makedirsCalls, remoteVars, sizes>>
WriteTrain ==
    /\ pc = "write_train"
    /\ dirExists
    /\ dirFiles' = WithFile(dirFiles, TrainFile, ToCsv(ConcatColumns(Y_train, X_train)))
    /\ pc' = "upload_val"
    /\ UNCHANGED <<err, dataVars, dirExists, makedirsCalls, remoteVars, sizes>>

\* what a to_csv that raises after opening the file leaves in it: the file is
\* opened with mode 'w' and written in place, so it holds whatever had reached
\* it, a beginning of the text of any length (all of it when only the close
\* fails): the lengths it can have
Cuts(n) == 0..n

\* to_csv raises: the directory is missing, no permission, no space
WriteFail ==
    /\ pc \in {"write_val", "write_train"}
    /\ \/ UNCHANGED fsVars                      \* open(path, 'w') raises
       \/ /\ dirExists                          \* the write or the close raises
          /\ \E text \in {IF pc = "write_val" THEN ToCsv(ConcatColumns(Y_val, X_val))
                           ELSE ToCsv(ConcatColumns(Y_train, X_train))} :
                \E k \in Cuts(Len(text)) :
                    dirFiles' = WithFile(dirFiles,
                                         IF pc = "write_val" THEN ValFile ELSE TrainFile,
                                         SubSeq(text, 1, k))
          /\ UNCHANGED <<dirExists, makedirsCalls>>
    /\ Fail("FilesystemError")
    /\ UNCHANGED <<dataVars, remoteVars, sizes>>

\* val_location = session.upload_data('../data/boston/validation.csv', key_prefix=prefix)
UploadVal ==
    /\ pc = "upload_val"
    /\ ValFile \in DOMAIN dirFiles
    /\ s3' = WithFile(s3, ValKey, dirFiles[ValFile])
    /\ val_location' = ValKey
    /\ pc' = "upload_train"
    /\ UNCHANGED <<err, dataVars, fsVars, train_location, job, endpoint, request,
                   Y_pred, sizes>>

\* train_location = session.upload_data('../data/boston/train.csv', key_prefix=prefix)
UploadTrain ==
    /\ pc = "upload_train"
    /\ TrainFile \in DOMAIN dirFiles
    /\ s3' = WithFile(s3, TrainKey, dirFiles[TrainFile])
    /\ train_location' = TrainKey
    /\ pc' = "fit"
    /\ UNCHANGED <<err, dataVars, fsVars, val_location, job, endpoint, request,
                   Y_pred, sizes>>

UploadFail ==
    /\ pc \in {"upload_val", "upload_train"}
    /\ Fail("TransferError")
    /\ UNCHANGED <<dataVars, fsVars, remoteVars, sizes>>

------------------------------------------------------------------------------
(* Step 4: train.  xgb.fit submits the job and blocks until it ends *)

\* xgb.fit({'train': s3_input_train, 'validation': s3_input_validation})
FitSubmit_Swapped ==
    /\ pc = "fit"
    /\ job.state = "unprovisioned"
    /\ job' = [job EXCEPT !.state = "InProgress",
                          !.train = val_location,
                          !.validation = train_location]
    /\ pc' = "fit_wait"
    /\ UNCHANGED <<err, dataVars, fsVars, s3, val_location, train_location,
                   endpoint, request, Y_pred, sizes>>
FitSubmit_NoWait ==
    /\ pc = "fit"
    /\ job.state = "unprovisioned"
    /\ job' = [job EXCEPT !.state = "InProgress",
                          !.train = train_location,
                          !.validation = val_location]
    /\ pc' = "deploy"
    /\ UNCHANGED <<err, dataVars, fsVars, s3, val_location, train_location,
                   endpoint, request, Y_pred, sizes>>
FitSubmit ==
    /\ pc = "fit"
    /\ job.state = "unprovisioned"
    /\ job' = [job EXCEPT !.state = "InProgress",
                          !.train = train_location,
                          !.validation = val_location]
    /\ pc' = "fit_wait"
    /\ UNCHANGED <<err, dataVars, fsVars, s3, val_location, train_location,
                   endpoint, request, Y_pred, sizes>>

\* the job loads both channels (label_column=0), saves the model it trained
\* under output_path in the bucket, and completes
FitCompleted ==
    /\ pc = "fit_wait"
    /\ job.state = "InProgress"
    /\ job.train \in DOMAIN s3 /\ job.validation \in DOMAIN s3
    /\ s3[job.train] # <<>> /\ s3[job.validation] # <<>>
    /\ \E train_matrix \in {ReadCsv(s3[job.train])},
          validation_matrix \in {ReadCsv(s3[job.validation])},
          a \in Artifacts :
          /\ job' = [job EXCEPT !.state = "Completed",
                                !.train_matrix = train_matrix,
                                !.validation_matrix = validation_matrix,
                                !.artifact = a]
          /\ s3' = WithFile(s3, OutputKey, a)
    /\ pc' = "deploy"
    /\ UNCHANGED <<err, dataVars, fsVars, val_location, train_location,
                   endpoint, request, Y_pred, sizes>>

FitFailed ==
    /\ pc = "fit_wait"
    /\ job.state = "InProgress"
    /\ job' = [job EXCEPT !.state = "Failed"]
    /\ Fail("TrainingJobFailed")
    /\ UNCHANGED <<dataVars, fsVars, s3, val_location, train_location,
                   endpoint, request, Y_pred, sizes>>

\* the job cannot be submitted
FitRefused ==
    /\ pc = "fit"
    /\ Fail("TrainingJobFailed")
    /\ UNCHANGED <<dataVars, fsVars, remoteVars, sizes>>

------------------------------------------------------------------------------
(* Step 6: deploy.  xgb.deploy blocks until the endpoint is in service *)

\* xgb_predictor = xgb.deploy(initial_instance_count=1, instance_type='ml.m4.xlarge')
DeploySubmit_Async ==
    /\ pc = "deploy"
    /\ endpoint = "unprovisioned"
    /\ endpoint' = "Creating"
    /\ pc' = "predict"
    /\ UNCHANGED <<err, dataVars, fsVars, s3, val_location, train_location, job,
                   request, Y_pred, sizes>>
DeploySubmit_NoWait ==
    /\ pc = "deploy"
    /\ job.state = "Completed"
    /\ endpoint = "unprovisioned"
    /\ endpoint' = "InService"
    /\ pc' = "predict"
    /\ UNCHANGED <<err, dataVars, fsVars, s3, val_location, train_location, job,
                   request, Y_pred, sizes>>
DeploySubmit ==
    /\ pc = "deploy"
    /\ endpoint = "unprovisioned"
    /\ endpoint' = "Creating"
    /\ pc' = "deploy_wait"
    /\ UNCHANGED <<err, dataVars, fsVars, s3, val_location, train_location, job,
                   request, Y_pred, sizes>>

DeployReady ==
    /\ pc = "deploy_wait"
    /\ endpoint = "Creating"
    /\ endpoint' = "InService"
    /\ pc' = "predict"
    /\ UNCHANGED <<err, dataVars, fsVars, s3, val_location, train_location, job,
                   request, Y_pred, sizes>>

DeployFailed ==
    /\ pc = "deploy_wait"
    /\ endpoint = "Creating"
    /\ endpoint' = "Failed"
    /\ Fail("DeploymentFailed")
    /\ UNCHANGED <<dataVars, fsVars, s3, val_location, train_location, job,
                   request, Y_pred, sizes>>

DeployRefused ==
    /\ pc = "deploy"
    /\ Fail("DeploymentFailed")
    /\ UNCHANGED <<dataVars, fsVars, remoteVars, sizes>>

------------------------------------------------------------------------------
(* Step 7: use the model *)

\* what reaches the endpoint is answered only within the platform's payload limit
Accepted(payload) == Len(payload) <= MaxPayload

\* Y_pred = np.fromstring(xgb_predictor.predict(X_test.values).decode('utf-8'), sep=',')
Predict_AutoRelease ==
    /\ pc = "predict"
    /\ endpoint = "InService"
    /\ Len(X_test) > 0
    /\ Accepted(RequestPayload(X_test))
    /\ request' = [sent |-> TRUE, text |-> RequestPayload(X_test)]
    /\ Y_pred' = [set |-> TRUE,
                  vals |-> FromString(Invoke(job.artifact, RequestPayload(X_test)), ",")]
    /\ endpoint' = "Deleted"
    /\ pc' = "delete"
    /\ UNCHANGED <<err, dataVars, fsVars, s3, val_location, train_location, job, sizes>>
Predict ==
    /\ pc = "predict"
    /\ endpoint = "InService"
    /\ Len(X_test) > 0          \* csv_serializer raises on an empty array
    /\ \E payload \in {RequestPayload(X_test)} :
          /\ Accepted(payload)
          /\ request' = [sent |-> TRUE, text |-> payload]
          /\ \E reply \in {Invoke(job.artifact, payload)} :
                Y_pred' = [set |-> TRUE, vals |-> FromString(reply, ",")]
    /\ pc' = "delete"
    /\ UNCHANGED <<err, dataVars, fsVars, s3, val_location, train_location, job,
                   endpoint, sizes>>

\* the serializer raises, the transport fails, or the platform rejects the request
PredictFail_Cleanup ==
    /\ pc = "predict"
    /\ request' = IF Len(X_test) > 0
                  THEN [sent |-> TRUE, text |-> RequestPayload(X_test)]
                  ELSE request
    /\ endpoint' = "Deleted"
    /\ Fail("InferenceError")
    /\ UNCHANGED <<dataVars, fsVars, s3, val_location, train_location, job,
                   Y_pred, sizes>>
PredictFail ==
    /\ pc = "predict"
    /\ request' = IF Len(X_test) > 0
                  THEN [sent |-> TRUE, text |-> RequestPayload(X_test)]
                  ELSE request
    /\ Fail("InferenceError")
    /\ UNCHANGED <<dataVars, fsVars, s3, val_location, train_location, job,
                   endpoint, Y_pred, sizes>>

------------------------------------------------------------------------------
(* Delete the endpoint, clean up *)

\* xgb_predictor.delete_endpoint()
DeleteEndpoint ==
    /\ pc = "delete"
    /\ endpoint = "InService"
    /\ endpoint' = "Deleted"
    /\ pc' = "cleanup"
    /\ UNCHANGED <<err, dataVars, fsVars, s3, val_location, train_location, job,
                   request, Y_pred, sizes>>

DeleteFail ==
    /\ pc = "delete"
    /\ Fail("TeardownError")
    /\ UNCHANGED <<dataVars, fsVars, remoteVars, sizes>>

\* !rm $data_dir/*  and  !rmdir $data_dir
CleanUp ==
    /\ pc = "cleanup"
    /\ LET kept == {n \in DOMAIN dirFiles : Hidden(n)}
       IN  /\ dirFiles' = [n \in kept |-> dirFiles[n]]   \* !rm $data_dir/*
           /\ dirExists' = (kept # {})                   \* !rmdir: only when empty
    /\ pc' = "done"
    /\ UNCHANGED <<err, dataVars, makedirsCalls, remoteVars, sizes>>

Next ==
    \/ LoadData \/ LoadFail
    \/ Split1 \/ Split1Raise \/ Split2 \/ Split2Raise
    \/ MakeDir \/ MakeDirFail \/ WriteVal \/ WriteTrain \/ WriteFail
    \/ UploadVal \/ UploadTrain \/ UploadFail
    \/ FitSubmit \/ FitCompleted \/ FitFailed \/ FitRefused
    \/ DeploySubmit \/ DeployReady \/ DeployFailed \/ DeployRefused
    \/ Predict \/ PredictFail
    \/ DeleteEndpoint \/ DeleteFail
    \/ CleanUp

Spec == Init /\ [][Next]_vars

------------------------------------------------------------------------------
(* The Splitter alone, for every pair of split ratios *)

InitSplit ==
    /\ pc = "load" /\ err = "none"
    /\ boston \in Datasets
    /\ ratio1 \in Ratios /\ ratio2 \in Ratios
    /\ InitFrames
    /\ dirExists = FALSE /\ dirFiles = NoFiles /\ makedirsCalls = 0
    /\ InitRemote
    /\ sizes = NoSizes

NextSplit == LoadData \/ Split1 \/ Split1Raise \/ Split2 \/ Split2Raise

SpecSplit == InitSplit /\ [][NextSplit]_vars

------------------------------------------------------------------------------
(* The sizes the two splits compute, for datasets of up to MaxN rows *)

InitSizes ==
    /\ pc = "off" /\ err = "none"
    /\ boston = <<>>
    /\ ratio1 = TestSize /\ ratio2 = TestSize
    /\ InitFrames
    /\ dirExists = FALSE /\ dirFiles = NoFiles /\ makedirsCalls = 0
    /\ InitRemote
    /\ \E n \in 0..MaxN, p1 \in Ratios, p2 \in Ratios :
          sizes = [stage |-> "split1", n |-> n, p1 |-> p1, p2 |-> p2,
                   n_test |-> 0, n_val |-> 0, n_train |-> 0]

\* the first call: n_test and n_train of the whole dataset
SizesSplit1 ==
    /\ sizes.stage = "split1"
    /\ SplitMayReturn(sizes.p1, sizes.n)
    /\ sizes' = [sizes EXCEPT !.stage = "split2",
                              !.n_test = NTest(sizes.p1, sizes.n),
                              !.n_train = NTrain(sizes.p1, sizes.n)]
    /\ UNCHANGED <<pc, err, dataVars, fsVars, remoteVars>>

\* the second call, on the train set of the first: its test set is the validation set
SizesSplit2 ==
    /\ sizes.stage = "split2"
    /\ SplitMayReturn(sizes.p2, sizes.n_train)
    /\ sizes' = [sizes EXCEPT !.stage = "done",
                              !.n_val = NTest(sizes.p2, sizes.n_train),
                              !.n_train = NTrain(sizes.p2, sizes.n_train)]
    /\ UNCHANGED <<pc, err, dataVars, fsVars, remoteVars>>

SizesRaise ==
    /\ \/ sizes.stage = "split1" /\ SplitMayRaise(sizes.p1, sizes.n)
       \/ sizes.stage = "split2" /\ SplitMayRaise(sizes.p2, sizes.n_train)
    /\ sizes' = [sizes EXCEPT !.stage = "failed"]
    /\ UNCHANGED <<pc, err, dataVars, fsVars, remoteVars>>

NextSizes == SizesSplit1 \/ SizesSplit2 \/ SizesRaise

SpecSizes == InitSizes /\ [][NextSizes]_vars

------------------------------------------------------------------------------
(* The Local Writer alone, for every pair of record sets cut from one dataset,
   the empty one included *)

\* a frame pair of the records rs, with the row labels first, first + 1, ...
XFrame(rs, first) == [i \in 1..Len(rs) |-> [idx |-> first + i - 1, vals |-> rs[i].features]]
YFrame(rs, first) == [i \in 1..Len(rs) |-> [idx |-> first + i - 1, vals |-> <<rs[i].target>>]]

InitWriter ==
    /\ pc = "mkdir" /\ err = "none"
    /\ boston = <<>>
    /\ ratio1 = TestSize /\ ratio2 = TestSize
    /\ X_bos_pd = NoFrame /\ Y_bos_pd = NoFrame
    /\ X_test = NoFrame /\ Y_test = NoFrame
    /\ \E v \in Datasets : \E t \in {d \in Datasets : Len(v) + Len(d) <= MaxRows} :
          /\ X_val = XFrame(v, 0) /\ Y_val = YFrame(v, 0)
          /\ X_train = XFrame(t, Len(v)) /\ Y_train = YFrame(t, Len(v))
    /\ InitDir /\ InitRemote
    /\ sizes = NoSizes

NextWriter == MakeDir \/ MakeDirFail \/ WriteVal \/ WriteTrain \/ WriteFail

SpecWriter == InitWriter /\ [][NextWriter]_vars

------------------------------------------------------------------------------
(* The Inference Client alone, for every batch of 1..MaxRows test rows: the    *)
(* notebook after deploy, with one validation and one train record             *)

OneRecord == CHOOSE r \in RecordPool : r.target = 2400

InitInfer ==
    /\ pc = "predict" /\ err = "none"
    /\ ratio1 = TestSize /\ ratio2 = TestSize
    /\ \E ds \in Datasets :
          /\ Len(ds) > 0
          /\ boston = ds \o <<OneRecord, OneRecord>>
          /\ X_test = XFrame(ds, 0) /\ Y_test = YFrame(ds, 0)
          /\ X_val = XFrame(<<OneRecord>>, Len(ds))
          /\ Y_val = YFrame(<<OneRecord>>, Len(ds))
          /\ X_train = XFrame(<<OneRecord>>, Len(ds) + 1)
          /\ Y_train = YFrame(<<OneRecord>>, Len(ds) + 1)
    /\ X_bos_pd = FeatureFrame(boston) /\ Y_bos_pd = TargetFrame(boston)
    /\ dirExists = TRUE /\ makedirsCalls \in {0, 1}
    /\ \E old \in {NoFiles, StaleFiles, HiddenFiles} :
          /\ makedirsCalls = 1 => old = NoFiles
          /\ dirFiles = WithFile(WithFile(old, ValFile, ToCsv(ConcatColumns(Y_val, X_val))),
                                 TrainFile, ToCsv(ConcatColumns(Y_train, X_train)))
    /\ val_location = ValKey /\ train_location = TrainKey
    /\ \E a \in Artifacts :
          /\ s3 = WithFile(WithFile(WithFile(NoFiles, ValKey, dirFiles[ValFile]),
                                    TrainKey, dirFiles[TrainFile]),
                           OutputKey, a)
          /\ job = [state |-> "Completed", train |-> TrainKey, validation |-> ValKey,
                    train_matrix |-> ReadCsv(s3[TrainKey]),
                    validation_matrix |-> ReadCsv(s3[ValKey]), artifact |-> a]
    /\ endpoint = "InService"
    /\ request = NoRequest /\ Y_pred = NoVector
    /\ sizes = NoSizes

NextInfer == Predict \/ PredictFail \/ DeleteEndpoint \/ DeleteFail \/ CleanUp

SpecInfer == InitInfer /\ [][NextInfer]_vars

------------------------------------------------------------------------------
(* Properties *)

Range(q) == {q[i] : i \in 1..Len(q)}
Count(q, x) == Cardinality({i \in 1..Len(q) : q[i] = x})
SameBag(a, b) == Len(a) = Len(b) /\ \A x \in Range(a) \cup Range(b) : Count(a, x) = Count(b, x)

\* the rows of df are rows of the loaded frame, each label at most once
RowsOf(df, whole) ==
    /\ Cardinality(Labels(df)) = Len(df)
    /\ \A i \in 1..Len(df) : df[i].idx \in Labels(whole) /\ df[i] = RowOf(whole, df[i].idx)

\* C1: after the two splits the train, validation and test subsets are pairwise
\* disjoint and together hold every record of the input dataset, each once,
\* whatever permutation each split drew.
C1_SplitIsPartition ==
    pc = "mkdir" =>
        /\ RowsOf(X_train, X_bos_pd) /\ RowsOf(X_val, X_bos_pd) /\ RowsOf(X_test, X_bos_pd)
        /\ RowsOf(Y_train, Y_bos_pd) /\ RowsOf(Y_val, Y_bos_pd) /\ RowsOf(Y_test, Y_bos_pd)
        /\ Labels(X_train) \cap Labels(X_val) = {}
        /\ Labels(X_train) \cap Labels(X_test) = {}
        /\ Labels(X_val) \cap Labels(X_test) = {}
        /\ Labels(X_train) \cup Labels(X_val) \cup Labels(X_test) = Labels(X_bos_pd)
        /\ Labels(Y_train) \cup Labels(Y_val) \cup Labels(Y_test) = Labels(Y_bos_pd)

C1_Witness ==
    /\ pc = "mkdir"
    /\ Len(X_test) >= 1 /\ Len(X_val) >= 1 /\ Len(X_train) >= 2
    /\ ratio1 # ratio2

\* C2: the three sizes the two successive splits compute sum to the dataset
\* size n, for every n and every pair of ratios: the rounding of neither split
\* loses a record or counts one twice.
C2_SizesSumToN ==
    sizes.stage = "done" => sizes.n_test + sizes.n_val + sizes.n_train = sizes.n

\* both splits round
C2_Witness ==
    /\ sizes.stage = "done"
    /\ (sizes.p1 * sizes.n) % 100 # 0
    /\ (sizes.p2 * (sizes.n - sizes.n_test)) % 100 # 0
    /\ sizes.n_train > 0

\* C3: 506 rows split with ratio 0.33 twice give 167 test, 112 validation and
\* 227 train records, and neither split raises.
C3_BostonSizes ==
    (sizes.n = BostonRows /\ sizes.p1 = TestSize /\ sizes.p2 = TestSize) =>
        /\ sizes.stage # "failed"
        /\ sizes.stage = "done" =>
              sizes.n_test = 167 /\ sizes.n_val = 112 /\ sizes.n_train = 227

C3_Witness ==
    /\ sizes.n = BostonRows /\ sizes.p1 = TestSize /\ sizes.p2 = TestSize
    /\ sizes.stage = "done"

\* train.csv is written, the second of the two, and the clean-up cell has not run
TrainWritten ==
    \/ pc \in {"upload_val", "upload_train", "fit", "fit_wait", "deploy",
               "deploy_wait", "predict", "delete", "cleanup"}
    \/ /\ pc = "failed"
       /\ err \in {"TransferError", "TrainingJobFailed", "DeploymentFailed",
                   "InferenceError", "TeardownError"}

\* validation.csv is written, the first of the two
ValWritten == TrainWritten \/ pc = "write_train"

\* the records of a subset, in row order: the target of Y and the features of X
\* that carry the same label
RecordsOf(Y, X) ==
    [i \in 1..Len(X) |-> [target |-> RowOf(Y, X[i].idx).vals[1], features |-> X[i].vals]]

\* C4: reading a written file back gives the same multiset of records as the
\* subset written, the first field of a line being the target and the others
\* the features in column order.
C4_RoundTrip ==
    /\ ValWritten =>
          /\ ValFile \in DOMAIN dirFiles
          /\ SameBag(ReadCsv(dirFiles[ValFile]), RecordsOf(Y_val, X_val))
    /\ TrainWritten =>
          /\ TrainFile \in DOMAIN dirFiles
          /\ SameBag(ReadCsv(dirFiles[TrainFile]), RecordsOf(Y_train, X_train))

\* a file of three lines, two of them the same record
C4_Witness ==
    /\ TrainWritten
    /\ Len(X_train) = 3
    /\ X_train[1].vals = X_train[3].vals /\ X_train[1].vals # X_train[2].vals
    /\ Y_train[1].vals # Y_train[2].vals

\* C6: a request that succeeds yields one prediction per submitted row, the
\* i-th being the prediction of the i-th row of the batch.
C6_PredictionsInRowOrder ==
    Y_pred.set =>
        /\ Len(Y_pred.vals) = Len(X_test)
        /\ \A i \in 1..Len(X_test) : Y_pred.vals[i] = job.artifact[X_test[i].vals]

\* two rows with different predictions
C6_Witness ==
    /\ Y_pred.set
    /\ Len(X_test) = 2
    /\ job.artifact[X_test[1].vals] # job.artifact[X_test[2].vals]

\* the whole batch, serialized, is over the payload limit
Oversize(df) == Len(CsvSerialize(Values(df))) > MaxPayload

\* C7: a batch over the platform's payload limit ends the predict step with
\* InferenceError: it is not accepted whole, the notebook sends no part of it
\* in its place, and no Prediction Vector comes of it.
C7_OversizeRejected ==
    (Oversize(X_test) /\ pc # "predict") =>
        /\ pc = "failed" /\ err = "InferenceError"
        /\ ~Y_pred.set
        /\ request.sent => request.text = CsvSerialize(Values(X_test))

C7_Witness ==
    /\ Oversize(X_test)
    /\ pc = "failed" /\ err = "InferenceError"
    /\ request.sent /\ Len(request.text) > MaxPayload

\* C8: the writer, given a subset of zero rows, can write it, and the file it
\* leaves exists and has no line.
C8_EmptySetEmptyFile ==
    /\ (pc = "write_val" /\ Len(X_val) = 0 /\ dirExists) => ENABLED WriteVal
    /\ (pc = "write_train" /\ Len(X_train) = 0 /\ dirExists) => ENABLED WriteTrain
    /\ (ValWritten /\ Len(X_val) = 0) => dirFiles[ValFile] = <<>>
    /\ (TrainWritten /\ Len(X_train) = 0) => dirFiles[TrainFile] = <<>>
    /\ ValWritten => ValFile \in DOMAIN dirFiles
    /\ TrainWritten => TrainFile \in DOMAIN dirFiles

C8_Witness ==
    /\ pc = "upload_val"
    /\ Len(X_val) = 0 /\ Len(X_train) = 0
    /\ dirFiles[ValFile] = <<>> /\ dirFiles[TrainFile] = <<>>

\* the text is one line per row of X, in row order, every line ended by a
\* newline and made of the target and then the NumFeatures features of the row
OneLinePerRecord(text, Y, X) ==
    LET lines == SplitLines(text)
    IN  /\ Len(lines) = Len(X)
        /\ Len(text) = Len(Concat(lines)) + Len(lines)
        /\ \A i \in 1..Len(lines) :
              LET fields == SplitSep(lines[i], ",")
              IN  /\ Len(fields) = NumFeatures + 1
                  /\ FloatVal(fields[1]) = RowOf(Y, X[i].idx).vals[1]
                  /\ \A j \in 1..NumFeatures : FloatVal(fields[j + 1]) = X[i].vals[j]

\* C9: validation.csv and train.csv hold one line per record of their subset,
\* no header line and no index field; every line is the record's target and
\* then its 13 features in column order.
C9_FileLayout ==
    /\ ValWritten =>
          (ValFile \in DOMAIN dirFiles /\ OneLinePerRecord(dirFiles[ValFile], Y_val, X_val))
    /\ TrainWritten =>
          (TrainFile \in DOMAIN dirFiles
           /\ OneLinePerRecord(dirFiles[TrainFile], Y_train, X_train))

C9_Witness ==
    /\ ValWritten /\ TrainWritten
    /\ Len(X_val) = 2 /\ Len(X_train) = 2
    /\ X_val[1].vals # X_val[2].vals
    /\ X_train[1].vals # X_train[2].vals

\* C10: the writer never writes into a missing directory; an absent directory
\* is created by one os.makedirs call, a present one is left as it is and no
\* call is made.
C10_DirReadyBeforeWrite ==
    /\ [](pc \in {"write_val", "write_train"} => dirExists)
    /\ [][(pc = "mkdir" /\ dirExists) =>
             (pc' = "write_val" /\ UNCHANGED fsVars)]_vars
    /\ [][(pc = "mkdir" /\ ~dirExists /\ pc' # "failed") =>
             (pc' = "write_val" /\ dirExists' /\ makedirsCalls' = makedirsCalls + 1)]_vars
    /\ [][(ValFile \notin DOMAIN dirFiles /\ ValFile \in DOMAIN dirFiles') => dirExists]_vars
    /\ [][(TrainFile \notin DOMAIN dirFiles /\ TrainFile \in DOMAIN dirFiles') => dirExists]_vars

\* both files written into a directory the notebook created
C10_Witness ==
    /\ makedirsCalls = 1 /\ dirExists
    /\ ValFile \in DOMAIN dirFiles /\ TrainFile \in DOMAIN dirFiles

\* C11: while the training job runs the notebook waits in xgb.fit; the endpoint
\* is asked for, and exists in any state, only once the job has completed and
\* left an artifact, which is then in the bucket under output_path; a failed
\* job leaves none and no endpoint is ever asked for.
C11_DeployAfterTraining ==
    /\ job.state = "InProgress" => pc = "fit_wait"
    /\ pc \in {"deploy", "deploy_wait", "predict", "delete", "cleanup", "done"} =>
          job.state = "Completed"
    /\ endpoint # "unprovisioned" => (job.state = "Completed" /\ job.artifact \in Artifacts)
    /\ job.state = "Completed" <=> OutputKey \in DOMAIN s3
    /\ OutputKey \in DOMAIN s3 => s3[OutputKey] = job.artifact
    /\ job.state = "Failed" =>
          (job.artifact = NoArtifact /\ endpoint = "unprovisioned" /\ pc = "failed")
    /\ job.state \in {"unprovisioned", "InProgress"} => job.artifact = NoArtifact

C11_Witness ==
    /\ endpoint = "Creating" /\ pc = "deploy_wait"
    /\ job.state = "Completed" /\ job.artifact \in Artifacts
    /\ OutputKey \in DOMAIN s3

\* the order of the notebook's cells
PcRank ==
    [c \in {"load", "split1", "split2", "mkdir", "write_val", "write_train", "upload_val",
            "upload_train", "fit", "fit_wait", "deploy", "deploy_wait", "predict",
            "delete", "cleanup", "done", "failed"} |->
        CASE c = "load" -> 1 [] c = "split1" -> 2 [] c = "split2" -> 3 [] c = "mkdir" -> 4
          [] c = "write_val" -> 5 [] c = "write_train" -> 6 [] c = "upload_val" -> 7
          [] c = "upload_train" -> 8 [] c = "fit" -> 9 [] c = "fit_wait" -> 10
          [] c = "deploy" -> 11 [] c = "deploy_wait" -> 12 [] c = "predict" -> 13
          [] c = "delete" -> 14 [] c = "cleanup" -> 15 [] c = "done" -> 16
          [] c = "failed" -> 17]

\* the error a failure of the step at c surfaces as
StepError(c) ==
    CASE c = "load" -> "DataUnavailable"
      [] c \in {"split1", "split2"} -> "ValueError"
      [] c \in {"mkdir", "write_val", "write_train"} -> "FilesystemError"
      [] c \in {"upload_val", "upload_train"} -> "TransferError"
      [] c \in {"fit", "fit_wait"} -> "TrainingJobFailed"
      [] c \in {"deploy", "deploy_wait"} -> "DeploymentFailed"
      [] c = "predict" -> "InferenceError"
      [] c = "delete" -> "TeardownError"
      [] OTHER -> "none"

\* C12: a failing step ends the run with its error; no step is taken after it;
\* every step of the run moves on to a later cell, so no step, and no remote
\* operation, is run a second time.
C12_FailureStopsRun ==
    /\ [](pc = "failed" <=> err # "none")
    /\ []((job.state = "Failed" \/ endpoint = "Failed") => pc = "failed")
    /\ [][pc' = "failed" => err' = StepError(pc)]_vars
    /\ [][PcRank[pc'] > PcRank[pc]]_vars
    /\ [][pc # "failed"]_vars

\* the second upload failed: the first object stays, nothing was trained
C12_Witness ==
    /\ pc = "failed" /\ err = "TransferError"
    /\ ValKey \in DOMAIN s3 /\ TrainKey \notin DOMAIN s3
    /\ job.state = "unprovisioned" /\ endpoint = "unprovisioned"

\* what is already uploaded or provisioned is the same after the step
RemoteKept ==
    /\ s3' = s3 /\ val_location' = val_location /\ train_location' = train_location
    /\ job.state = "Completed" => job' = job
    /\ endpoint = "InService" => endpoint' = endpoint

\* C13: a step that fails, from its invocation to the failure, leaves the
\* uploaded objects, a completed training job and an endpoint in service as
\* they were; after a failed inference the endpoint is still in service.
C13_NoCleanupOnFailure ==
    /\ [][pc' = "failed" => RemoteKept]_vars
    /\ [][(pc \in {"fit", "deploy"}) => RemoteKept]_vars
    /\ []((pc = "failed" /\ err = "InferenceError") => endpoint = "InService")
    /\ []((pc = "failed" /\ err \in {"TrainingJobFailed", "DeploymentFailed",
                                      "InferenceError", "TeardownError"}) =>
             (ValKey \in DOMAIN s3 /\ TrainKey \in DOMAIN s3))

C13_Witness ==
    /\ pc = "failed" /\ err = "InferenceError"
    /\ request.sent
    /\ endpoint = "InService" /\ job.state = "Completed"
    /\ ValKey \in DOMAIN s3 /\ TrainKey \in DOMAIN s3

------------------------------------------------------------------------------
(* The notebook from the moment the endpoint is in service, when the process  *)
(* driving it may also die at any cell                                         *)

\* the kernel dies or is interrupted: no cell runs any more, nothing else changes
Abort ==
    /\ pc \in {"predict", "delete", "cleanup"}
    /\ pc' = "aborted"
    /\ UNCHANGED <<err, dataVars, fsVars, remoteVars, sizes>>

NextLeak == Predict \/ PredictFail \/ DeleteEndpoint \/ DeleteFail \/ CleanUp \/ Abort

SpecLeak == InitInfer /\ [][NextLeak]_vars

\* C14: an endpoint in service stops being so only in the step of the
\* delete_endpoint cell; it is in service until that cell runs, and when the
\* process dies or fails before it, no later step exists and the endpoint stays.
C14_EndpointReleasedOnlyByTeardown ==
    /\ [][(endpoint = "InService" /\ endpoint' # "InService") =>
             (pc = "delete" /\ pc' = "cleanup" /\ endpoint' = "Deleted")]_vars
    /\ [][pc \notin {"aborted", "failed"}]_vars
    /\ []((pc \in {"predict", "delete"}) => endpoint = "InService")
    /\ []((pc = "failed" /\ err = "InferenceError") => endpoint = "InService")

\* the process died after the predictions came back and before the teardown
C14_Witness ==
    /\ pc = "aborted"
    /\ Y_pred.set
    /\ endpoint = "InService"

------------------------------------------------------------------------------
(* The lifecycle of the two remote resources *)

Phase(s) ==
    CASE s = "unprovisioned" -> 0
      [] s \in {"InProgress", "Creating"} -> 1
      [] s \in {"Completed", "InService"} -> 2
      [] s = "Deleted" -> 3
      [] OTHER -> 9

LifeStep(a, b) == a = b \/ Phase(b) = Phase(a) + 1

LifeStepOrFail(a, b) == LifeStep(a, b) \/ (Phase(a) = 1 /\ b = "Failed")

\* C15 as stated: both resources are always in one of the four lifecycle states
\* and every change moves one state forward along
\* unprovisioned, provisioning, ready, torn down.
C15_FourStateLifecycle ==
    /\ [](Phase(job.state) \in 0..3 /\ Phase(endpoint) \in 0..3)
    /\ [][LifeStep(job.state, job'.state) /\ LifeStep(endpoint, endpoint')]_vars

\* C15 amended: every change moves one state forward along the lifecycle or
\* goes from provisioning to failed, where the resource stays; ready is entered
\* only from provisioning; the training job is never torn down.
C15_LifecycleWithFailure ==
    /\ [][LifeStepOrFail(job.state, job'.state)
          /\ LifeStepOrFail(endpoint, endpoint')]_vars
    /\ [][(Phase(job'.state) = 2 /\ Phase(job.state) # 2) => job.state = "InProgress"]_vars
    /\ [][(endpoint' = "InService" /\ endpoint # "InService") => endpoint = "Creating"]_vars
    /\ [](job.state # "Deleted")

\* the job is ready and the provisioning of the endpoint has failed
C15_Witness ==
    /\ job.state = "Completed"
    /\ endpoint = "Failed"
    /\ pc = "failed"

------------------------------------------------------------------------------
(* The content of the working directory *)

Generated == {ValFile, TrainFile}

\* both files are written and the clean-up cell has not run
DirInUse == TrainWritten

\* C16 as stated: from the second write until the clean-up the directory holds
\* train.csv and validation.csv and no other file, whatever it held at the start.
C16_ExactlyTwoFiles == DirInUse => DOMAIN dirFiles = Generated

\* the two files as this run writes them
AsWritten ==
    /\ Generated \subseteq DOMAIN dirFiles
    /\ dirFiles[ValFile] = ToCsv(ConcatColumns(Y_val, X_val))
    /\ dirFiles[TrainFile] = ToCsv(ConcatColumns(Y_train, X_train))

\* C16 amended: from the second write until the clean-up the directory holds
\* train.csv and validation.csv as this run wrote them, an earlier train.csv or
\* validation.csv being overwritten, next to every other file it held at the
\* start: before the clean-up no step adds, removes or changes any other file,
\* no step after the second write changes anything in the directory, and a
\* directory the run created itself holds exactly the two.
C16_TwoFilesBesideOldOnes ==
    /\ [](pc = "upload_val" => AsWritten)
    /\ [](DirInUse => Generated \subseteq DOMAIN dirFiles)
    /\ []((DirInUse /\ makedirsCalls = 1) => DOMAIN dirFiles = Generated)
    /\ [][(pc # "cleanup") =>
             /\ DOMAIN dirFiles' \ Generated = DOMAIN dirFiles \ Generated
             /\ \A n \in DOMAIN dirFiles \ Generated : dirFiles'[n] = dirFiles[n]]_vars
    /\ [][(DirInUse /\ pc # "cleanup") => dirFiles' = dirFiles]_vars

\* a directory that held a file of the user's and the two files of an earlier
\* run at the start, after both writes: the two are overwritten, the other kept
C16_Witness ==
    /\ pc = "fit"
    /\ makedirsCalls = 0
    /\ DOMAIN dirFiles = DOMAIN StaleFiles
    /\ dirFiles[ValFile] # StaleFiles[ValFile]
    /\ dirFiles[TrainFile] # StaleFiles[TrainFile]
    /\ dirFiles["notes.txt"] = StaleFiles["notes.txt"]

------------------------------------------------------------------------------
(* What is sent to the endpoint *)

\* C17: the payload sent has one line per record of the test subset, in its
\* order; each line is the 13 feature values of that record of the dataset,
\* without its target; the records sent are none of the train or validation
\* subset.
C17_PayloadIsTestFeatures ==
    request.sent =>
        LET lines == SplitLines(request.text)
        IN  /\ Len(lines) = Len(X_test)
            /\ \A i \in 1..Len(lines) :
                  /\ Len(PayloadRow(lines[i])) = NumFeatures
                  /\ PayloadRow(lines[i]) = boston[X_test[i].idx + 1].features
            /\ Labels(X_test) \cap (Labels(X_train) \cup Labels(X_val)) = {}

\* two test records with different features were sent, and the train record
\* differs from the first of them
C17_Witness ==
    /\ request.sent
    /\ Len(X_test) = 2
    /\ X_test[1].vals # X_test[2].vals
    /\ Len(X_train) = 1
    /\ X_train[1].vals # X_test[1].vals

------------------------------------------------------------------------------
(* When the endpoint is called *)

\* C18: the predict cell is reached only with the endpoint in service; the
\* request is sent in a step that starts and ends with the endpoint in service,
\* after deploy returned and before the teardown; once a request is sent the
\* endpoint is in service or was deleted afterwards, and the request never
\* changes again.
C18_InferenceOnlyWhenReady ==
    /\ [](pc = "predict" => (endpoint = "InService" /\ ~request.sent))
    /\ [](request.sent => endpoint \in {"InService", "Deleted"})
    /\ [](endpoint \in {"unprovisioned", "Creating", "Failed"} => request = NoRequest)
    /\ [][(request' # request) =>
             /\ pc = "predict"
             /\ endpoint = "InService" /\ endpoint' = "InService"
             /\ request'.sent]_vars

\* the answer came back from the endpoint in service, the teardown is next
C18_Witness ==
    /\ pc = "delete"
    /\ request.sent
    /\ Y_pred.set
    /\ endpoint = "InService"
    /\ job.state = "Completed"

------------------------------------------------------------------------------
(* What the training job is given *)

\* channels, objects and matrices as they are in one state
ChannelsNow ==
    /\ job.state # "unprovisioned" =>
          /\ job.train = TrainKey /\ train_location = TrainKey
          /\ job.validation = ValKey /\ val_location = ValKey
    /\ DOMAIN s3 \subseteq {ValKey, TrainKey, OutputKey}
    /\ OutputKey \in DOMAIN s3 => (job.state = "Completed" /\ s3[OutputKey] = job.artifact)
    /\ pc = "upload_train" =>
          (ValKey \in DOMAIN s3 /\ ReadCsv(s3[ValKey]) = RecordsOf(Y_val, X_val))
    /\ pc = "fit" =>
          (TrainKey \in DOMAIN s3 /\ ReadCsv(s3[TrainKey]) = RecordsOf(Y_train, X_train))
    /\ job.state = "Completed" =>
          /\ job.train_matrix = RecordsOf(Y_train, X_train)
          /\ job.validation_matrix = RecordsOf(Y_val, X_val)
    /\ Labels(X_test) \cap (Labels(X_train) \cup Labels(X_val)) = {}
    /\ Labels(Y_test) \cap (Labels(Y_train) \cup Labels(Y_val)) = {}

\* an uploaded object is never changed or removed, and the subsets stay as
\* the second split left them
UploadsKept ==
    /\ \A k \in DOMAIN s3 : k \in DOMAIN s3' /\ s3'[k] = s3[k]
    /\ DOMAIN s3 # {} => UNCHANGED <<X_train, Y_train, X_val, Y_val, X_test, Y_test>>

\* C20: the job's train channel is the locator of the uploaded train.csv and
\* its validation channel the locator of the uploaded validation.csv; each
\* uploaded object, and each matrix the job loaded, holds the records of its
\* subset, one line each and no other; besides these two the bucket holds only
\* the model a completed job saved, and the records of the test subset are
\* none of those written.
C20_ChannelsHoldTheirSubsets == []ChannelsNow /\ [][UploadsKept]_vars

\* a finished job whose two matrices differ, with a test record kept aside
C20_Witness ==
    /\ job.state = "Completed"
    /\ job.train_matrix # job.validation_matrix
    /\ Len(job.train_matrix) = 1
    /\ Len(X_test) = 2

------------------------------------------------------------------------------
(* The end of a run *)

\* C19: at the end of a run in which no step failed the endpoint is deleted,
\* both objects are uploaded, the two generated files are gone from the
\* working directory and the directory itself is gone.
C19_EverythingRemovedAtEnd ==
    pc = "done" =>
          /\ endpoint = "Deleted"
          /\ {ValKey, TrainKey} \subseteq DOMAIN s3
          /\ Generated \cap DOMAIN dirFiles = {}
          /\ ~dirExists

------------------------------------------------------------------------------
(* Features and targets of one record stay together *)

\* row i of X and row i of Y carry the same label, and hold the features and
\* the target of the record of the dataset with that label
Paired(X, Y) ==
    /\ Len(X) = Len(Y)
    /\ \A i \in 1..Len(X) :
          /\ X[i].idx = Y[i].idx
          /\ X[i].idx + 1 \in 1..Len(boston)
          /\ X[i].vals = boston[X[i].idx + 1].features
          /\ Y[i].vals = <<boston[X[i].idx + 1].target>>

\* line i of the text is the record of the dataset that row i of Y is taken from
LinesPaired(text, Y) ==
    LET recs == ReadCsv(text)
    IN  /\ Len(recs) = Len(Y)
        /\ \A i \in 1..Len(recs) : recs[i] = boston[Y[i].idx + 1]

\* before the clean-up a written file is not changed, and from the first write
\* on neither the dataset nor the subsets are
WrittenKept ==
    /\ (ValWritten /\ pc # "cleanup") =>
          (ValFile \in DOMAIN dirFiles' /\ dirFiles'[ValFile] = dirFiles[ValFile])
    /\ (TrainWritten /\ pc # "cleanup") =>
          (TrainFile \in DOMAIN dirFiles' /\ dirFiles'[TrainFile] = dirFiles[TrainFile])
    /\ (pc \notin {"load", "split1", "split2"}) =>
          UNCHANGED <<boston, X_train, Y_train, X_val, Y_val, X_test, Y_test>>

\* C21: after any choice of the two splits, row i of the features and row i of
\* the targets of each subset belong to the same record of the dataset; each
\* line of validation.csv and of train.csv, once written, is the target and the
\* features of one record of the dataset, and stays so until the clean-up.
C21_FeaturesAndTargetsPaired ==
    /\ [](Paired(X_test, Y_test) /\ Paired(X_train, Y_train) /\ Paired(X_val, Y_val))
    /\ [](pc = "write_train" =>
            (ValFile \in DOMAIN dirFiles /\ LinesPaired(dirFiles[ValFile], Y_val)))
    /\ [](pc = "upload_val" =>
            (TrainFile \in DOMAIN dirFiles /\ LinesPaired(dirFiles[TrainFile], Y_train)))
    /\ [][WrittenKept]_vars

\* both files are written; the split took the test rows out of their order in
\* the dataset, and the two test records differ in target and in features
C21_Witness ==
    /\ pc = "upload_val"
    /\ Len(X_test) = 2
    /\ X_test[1].idx > X_test[2].idx
    /\ Y_test[1].vals # Y_test[2].vals
    /\ X_test[1].vals # X_test[2].vals
    /\ dirFiles[ValFile] # dirFiles[TrainFile]

====
